---- MODULE Spec2Model ----
(***************************************************************************)
(* Model of crypto-lab's ingestion core:                                   *)
(*   - download_ohlcv_history_v1 / load_and_qc (lab_core/pipeline), the    *)
(*     resumable batch downloader and the partition directory it writes;  *)
(*   - set_cursor / record_run / _atomic_write_json (src/io/state.py),     *)
(*     the cursor store kept in state.json;                                *)
(*   - fetch_ohlcv (src/io/fetch.py), the retrying fetch loop;             *)
(*   - aggregate_ohlcv_v0 (lab_core/aggregator) with run_qc_v0             *)
(*     (lab_core/qc), the merge of the partition files of one stream;      *)
(*   - run_qc_v0 on arbitrary tables and normalize_to_contract             *)
(*     (lab_core/loader) on raw batches;                                   *)
(*   - floor_utc_to_closed_bar (src/io/utils.py).                          *)
(* Each part has its own specification over the shared variable tuple.     *)
(***************************************************************************)
EXTENDS Integers, Sequences, FiniteSets, TLC

\* ------------------------------------------------------------------ bounds
\* Largest candle timestamp the modelled exchange returns.
MaxTs == 2
\* Number of runs of download_ohlcv_history_v1 on the same root directory.
MaxRuns == 2
\* Number of load_and_qc calls over all runs.
MaxRequests == 3

\* Optional[int] = None (end_ms, max_batches, last_ts).
None == -1

Timestamps == 0..MaxTs
\* Values of the parameters of download_ohlcv_history_v1 that are tried.
StartValues == {0, 1}
EndValues == {None, 2}
MaxBatchesValues == {None, 0, 1}
LimitValues == {1}

\* ------------------------------------------------------------ pure helpers
RECURSIVE SeqMax(_)
\* df["timestamp"].max() of a non-empty column.
SeqMax(s) ==
    IF Len(s) = 1 THEN s[1]
    ELSE LET m == SeqMax(Tail(s)) IN IF s[1] > m THEN s[1] ELSE m

SetMax(S) == CHOOSE x \in S : \A y \in S : y <= x

\* The raw batches an exchange may answer to one request of at most n candles:
\* any sequence of timestamps, in any order, with repetitions.
Batches(n) == UNION {[1..k -> Timestamps] : k \in 0..n}

\* ------------------------------------------------- history downloader state
VARIABLES
    files,              \* partition directory: file name (now_ms) -> [rows, complete]
    now_ms,             \* the wall clock read by load_and_qc
    pc,                 \* position of the downloader process
    start_ms, end_ms, limit, resume, max_batches,   \* arguments of the run
    effective_start_ms, current_since, batches, rows_total, last_ts_overall,
    df,                 \* the normalized batch held by load_and_qc
    saved_path,         \* file name load_and_qc wrote (None before)
    returned,           \* <<stats>> once the run returned, <<>> otherwise
    stop_msg,           \* the stop message the run printed ("" if none)
    exc,                \* the exception that ended the run ("" if none)
    runs,               \* number of runs started
    nreq,               \* requests issued by the current run
    total_req,          \* load_and_qc calls over all runs
    first_since, last_since,   \* since of the first / latest request of the run
    resumed_cursor,     \* what _find_last_timestamp_in_pipeline_dir returned
    persisted_before,   \* largest timestamp the directory held when the run began
    prev_returned, prev_stop_msg   \* what the latest earlier run that downloaded
                        \* no batch returned and printed

hvars == <<files, now_ms, pc, start_ms, end_ms, limit, resume, max_batches,
           effective_start_ms, current_since, batches, rows_total,
           last_ts_overall, df, saved_path, returned, stop_msg, exc, runs, nreq,
           total_req, first_since, last_since, resumed_cursor, persisted_before,
           prev_returned, prev_stop_msg>>


Terminal == {"done", "failed", "crashed"}

HInit ==
    /\ files = <<>>
    /\ now_ms = 0
    /\ pc = "idle"
    /\ start_ms = 0 /\ end_ms = None /\ limit = 1 /\ resume = TRUE
    /\ max_batches = None
    /\ effective_start_ms = 0 /\ current_since = 0
    /\ batches = 0 /\ rows_total = 0 /\ last_ts_overall = None
    /\ df = <<>> /\ saved_path = None
    /\ returned = <<>> /\ stop_msg = "" /\ exc = ""
    /\ runs = 0 /\ nreq = 0 /\ total_req = 0
    /\ first_since = None /\ last_since = None
    /\ resumed_cursor = None /\ persisted_before = None
    /\ prev_returned = <<>> /\ prev_stop_msg = ""

\* _find_last_timestamp_in_pipeline_dir: the max timestamp of the LAST file in
\* sorted order; None when there is no file, the file cannot be read or is empty.
\* File names are "<timeframe>_<now_ms>.parquet"; for the 13-digit now_ms of
\* this century their lexicographic order is the order of now_ms.
FindLastTimestamp(fs) ==
    IF DOMAIN fs = {} THEN None
    ELSE LET last_file == fs[SetMax(DOMAIN fs)] IN
         IF ~last_file.complete THEN None
         ELSE IF last_file.rows = <<>> THEN None
         ELSE SeqMax(last_file.rows)

\* The largest timestamp held by the readable files of the directory (None when
\* they hold no row).
PersistedMax(fs) ==
    LET held == UNION {{fs[n].rows[i] : i \in DOMAIN fs[n].rows} :
                          n \in {m \in DOMAIN fs : fs[m].complete}}
    IN IF held = {} THEN None ELSE SetMax(held)

\* The resume rule of download_ohlcv_history_v1.
EffectiveStart(start, res, last_ts) ==
    IF res /\ last_ts # None /\ last_ts > start THEN last_ts + 1 ELSE start

\* ------------------------------------------------------- cursor store state
\* Two writer processes, each working on its own stream.
Writers == {1, 2}
\* Calls of set_cursor / record_run one writer makes.
MaxOps == 2

\* _key: "<exchange>::<symbol>::<tf>".
Key(exchange, symbol, tf) == <<exchange, "::", symbol, "::", tf>>
WriterStream(w) ==
    IF w = 1 THEN [exchange |-> "binance", symbol |-> "BTC/USDT", tf |-> "1h"]
    ELSE [exchange |-> "binance", symbol |-> "ETH/USDT", tf |-> "1h"]
WriterKey(w) ==
    Key(WriterStream(w).exchange, WriterStream(w).symbol, WriterStream(w).tf)

\* datetime values: wall-clock reading and tzinfo (None for a naive datetime).
DateTimes == {[wall |-> 1, tzinfo |-> "UTC"], [wall |-> 2, tzinfo |-> "None"]}
\* d.replace(tzinfo=dt.UTC): the wall-clock reading is kept, the zone is set.
ReplaceTzUtc(d) == [wall |-> d.wall, tzinfo |-> "UTC"]
\* d.isoformat() of an aware datetime: reading followed by the UTC offset.
IsoFormat(d) == <<d.wall, IF d.tzinfo = "UTC" THEN "+00:00" ELSE "">>
\* Row counts and ranges recorded by record_run.
RowsAdded == {1}
RunRanges == {<<[wall |-> 1, tzinfo |-> "UTC"], [wall |-> 2, tzinfo |-> "None"]>>}

VARIABLES
    state_json,     \* catalog/state.json: [exists, complete, items]
    tmp,            \* per writer: its temporary file [exists, complete, items]
    wpc,            \* per writer: position in set_cursor / record_run
    local,          \* per writer: the state dict it loaded and modified
    expected,       \* per writer: the item its own finished calls add up to
    ops             \* per writer: calls finished

svars == <<state_json, tmp, wpc, local, expected, ops>>

NoFile == [exists |-> FALSE, complete |-> FALSE, items |-> <<>>]

SInit ==
    /\ state_json = NoFile
    /\ tmp = [w \in Writers |-> NoFile]
    /\ wpc = [w \in Writers |-> "idle"]
    /\ local = [w \in Writers |-> <<>>]
    /\ expected = [w \in Writers |-> <<>>]
    /\ ops = [w \in Writers |-> 0]

\* ------------------------------------------------------- fetch_ohlcv state
\* Requests of one fetch_ohlcv call that are answered with candles.
MaxFetchOk == 2
\* max_attempts of fetch_ohlcv.
max_attempts == 5
\* Autosave period of fetch_ohlcv, in rows.
autosave_rows == 10000

\* Arguments of fetch_ohlcv that are tried (since and until as epoch ms, delta
\* as the timeframe step in ms).
SinceValues == {0}
UntilValues == {0, 3}
FetchLimitValues == {2}
DeltaValues == {1}
\* What exchange.fetch_ohlcv can raise: a network or rate-limit error, or a
\* permanent one (unsupported symbol or timeframe).
ExchangeErrors == {"transient", "permanent"}

VARIABLES
    f_pc,           \* position of fetch_ohlcv: idle, loop, returned, raised
    since_ms, until_ms, since_arg, fetch_limit, delta_ms,
    attempt,        \* the retry counter of the loop
    all_data,       \* timestamps of the rows accumulated
    autosave,       \* timestamps of the rows in the autosave file
    f_result,       \* index of the returned frame
    f_exc,          \* the exception that left fetch_ohlcv ("" if none)
    slept,          \* seconds of the latest retry wait
    ok_requests,    \* requests answered with candles
    consec_failed,  \* failed requests since the latest answered one
    perm_raised,    \* the exchange raised a permanent error in this call
    asked_after_perm   \* a request was issued after a permanent error

fvars == <<f_pc, since_ms, until_ms, since_arg, fetch_limit, delta_ms, attempt,
           all_data, autosave, f_result, f_exc, slept, ok_requests,
           consec_failed, perm_raised, asked_after_perm>>

FInit ==
    /\ f_pc = "idle"
    /\ since_ms = 0 /\ until_ms = 0 /\ since_arg = 0
    /\ fetch_limit = 0 /\ delta_ms = 0
    /\ attempt = 0 /\ all_data = <<>> /\ autosave = <<>>
    /\ f_result = <<>> /\ f_exc = "" /\ slept = 0
    /\ ok_requests = 0 /\ consec_failed = 0
    /\ perm_raised = FALSE /\ asked_after_perm = FALSE

\* --------------------------------------------------------- aggregator state
\* Rows the partition files of a stream directory hold altogether.
MaxDirRows == 3

\* EXPECTED_COLUMNS of the data contract, and the key of a row.
ExpectedColumns == {"exchange", "symbol", "timeframe", "timestamp",
                    "open", "high", "low", "close", "volume"}
KeyCols == {"exchange", "symbol", "timeframe", "timestamp"}
\* EXPECTED_COLUMNS in the order of the contract.
EXPECTED_COLUMNS == <<"exchange", "symbol", "timeframe", "timestamp",
                      "open", "high", "low", "close", "volume">>
\* The dtypes of the contract: what normalize_to_contract casts a non-empty
\* batch to and what to_parquet / read_parquet keep.
ContractDtypes ==
    [c \in ExpectedColumns |->
        IF c = "timestamp" THEN "int64"
        ELSE IF c \in {"open", "high", "low", "close", "volume"} THEN "float64"
        ELSE "object"]

\* Candles (open, high, low, close, volume): a consistent one, one with
\* low > high, one with a negative open (which is also below its low).
Candles ==
    {[open |-> 1, high |-> 2, low |-> 1, close |-> 2, volume |-> 1],
     [open |-> 1, high |-> 1, low |-> 2, close |-> 1, volume |-> 1],
     [open |-> -1, high |-> 2, low |-> 1, close |-> 1, volume |-> 1]}

\* A row as normalize_to_contract builds it for the stream binance BTC/USDT 1m.
ContractRow(ts, c) ==
    [exchange |-> "binance", symbol |-> "BTC/USDT", timeframe |-> "1m",
     timestamp |-> ts, open |-> c.open, high |-> c.high, low |-> c.low,
     close |-> c.close, volume |-> c.volume]
\* The rows the partition files are drawn from.
StreamRows == {ContractRow(ts, c) : ts \in {1, 2}, c \in Candles}

\* The columns the files of a directory may have: the contract's, or the
\* contract's without one key column.
Schemas == {ExpectedColumns, ExpectedColumns \ {"exchange"},
            ExpectedColumns \ {"timestamp"}}

\* A frame: its columns (as a set and in their order), their dtypes, and its
\* rows in index order (the index is 0..n-1).
Table(order, dtypes, s) ==
    LET cols == {order[i] : i \in DOMAIN order} IN
    [columns |-> cols, order |-> order, dtypes |-> dtypes,
     rows |-> [i \in DOMAIN s |-> [c \in cols |-> s[i][c]]]]
\* A partition file written from a normalized batch, with the columns cols.
Frame(cols, s) ==
    Table(SelectSeq(EXPECTED_COLUMNS, LAMBDA c : c \in cols),
          [c \in cols |-> ContractDtypes[c]], s)

\* A directory root_dir/exchange/symbol-with-dash/timeframe: the frames of the
\* files that the glob *.parquet matches, in the sorted order of their paths
\* (files of other names are not listed). The rows s are held by no file
\* (parts = 0), by one file, or by two files, the first holding k rows.
Dir(cols, s, k, parts) ==
    IF parts = 0 THEN <<>>
    ELSE IF parts = 1 THEN <<Frame(cols, s)>>
    ELSE <<Frame(cols, SubSeq(s, 1, k)), Frame(cols, SubSeq(s, k + 1, Len(s)))>>

VARIABLES
    a_base,         \* what base_dir is: "absent", "not_dir" (a file) or "dir"
    a_files,        \* the partition files of the directory, in path order
    a_pc,           \* position of aggregate_ohlcv_v0: idle, returned, raised
    a_drop_dirty, a_recheck_qc,     \* arguments of the latest call
    a_dedup,        \* the frame after _sort_by_timestamp and _deduplicate_df
    a_result,       \* the returned dict's df, qc_before_clean, qc_after_clean
    a_exc,          \* the exception that left the call ("" if none)
    a_round,        \* 1: the files as found; 2: the stored result of round 1
    a_rows_found    \* in round 2: the number of rows the files of round 1 held

avars == <<a_base, a_files, a_pc, a_drop_dirty, a_recheck_qc, a_dedup, a_result,
           a_exc, a_round, a_rows_found>>

\* pd.DataFrame(): no columns, no rows.
NoFrame == [columns |-> {}, order |-> <<>>, dtypes |-> <<>>, rows |-> <<>>]
NoResult == [df |-> NoFrame, qc_before_clean |-> <<>>, qc_after_clean |-> <<>>]

\* Before any call of the aggregator, whatever the directory holds.
AIdle ==
    /\ a_pc = "idle"
    /\ a_drop_dirty = TRUE /\ a_recheck_qc = FALSE
    /\ a_dedup = NoFrame
    /\ a_result = NoResult /\ a_exc = ""
    /\ a_round = 1 /\ a_rows_found = 0

AInit == a_base = "absent" /\ a_files = <<>> /\ AIdle

\* --------------------------------------- run_qc_v0 / normalize_to_contract state
\* Rows of a table handed to run_qc_v0, candles of a raw batch.
MaxQcRows == 3

\* TIMEFRAME_TO_MS.
TIMEFRAME_TO_MS ==
    [tf \in {"1m", "3m", "5m", "15m", "30m", "1h", "2h", "4h", "6h", "8h",
             "12h", "1d"} |->
        CASE tf = "1m" -> 60000 [] tf = "3m" -> 180000 [] tf = "5m" -> 300000
          [] tf = "15m" -> 900000 [] tf = "30m" -> 1800000
          [] tf = "1h" -> 3600000 [] tf = "2h" -> 7200000
          [] tf = "4h" -> 14400000 [] tf = "6h" -> 21600000
          [] tf = "8h" -> 28800000 [] tf = "12h" -> 43200000
          [] tf = "1d" -> 86400000]

\* Candles of the tables: a consistent one, one with low > high, one with
\* low > high and a negative volume, one with a negative volume only.
QcCandles ==
    {[open |-> 1, high |-> 2, low |-> 1, close |-> 2, volume |-> 1],
     [open |-> 1, high |-> 1, low |-> 2, close |-> 1, volume |-> 1],
     [open |-> 1, high |-> 1, low |-> 2, close |-> 1, volume |-> -1],
     [open |-> 1, high |-> 2, low |-> 1, close |-> 2, volume |-> -1]}
QcRow(ex, tf, ts, c) ==
    [exchange |-> ex, symbol |-> "BTC/USDT", timeframe |-> tf, timestamp |-> ts,
     open |-> c.open, high |-> c.high, low |-> c.low, close |-> c.close,
     volume |-> c.volume, extra |-> 0]
\* The rows the tables are drawn from: timestamps on the 1m grid with a hole at
\* 120000, a timeframe the dictionary knows and one it does not, a second
\* exchange, and the four candles.
QcRows ==
    {QcRow("binance", tf, ts, [open |-> 1, high |-> 2, low |-> 1, close |-> 2,
                               volume |-> 1]) :
        tf \in {"1m", "7m"}, ts \in {0, 60000, 180000}}
    \cup {QcRow("okx", "1m", 0, [open |-> 1, high |-> 2, low |-> 1, close |-> 2,
                                 volume |-> 1])}
    \cup {QcRow("binance", "1m", 0, c) : c \in QcCandles}

\* Column orders and dtypes of the tables: the contract's; the contract's
\* columns with an integer column read as float64; the contract's columns in
\* another order; a column missing; a column too many.
QcSchemas ==
    {<<EXPECTED_COLUMNS, ContractDtypes>>,
     <<EXPECTED_COLUMNS, [ContractDtypes EXCEPT !["timestamp"] = "float64"]>>,
     <<<<"timestamp", "exchange", "symbol", "timeframe",
         "open", "high", "low", "close", "volume">>, ContractDtypes>>,
     <<SelectSeq(EXPECTED_COLUMNS, LAMBDA c : c # "volume"),
       [c \in ExpectedColumns \ {"volume"} |-> ContractDtypes[c]]>>,
     <<SelectSeq(EXPECTED_COLUMNS, LAMBDA c : c # "timeframe"),
       [c \in ExpectedColumns \ {"timeframe"} |-> ContractDtypes[c]]>>,
     <<Append(EXPECTED_COLUMNS, "extra"),
       [c \in ExpectedColumns \cup {"extra"} |->
           IF c = "extra" THEN "int64" ELSE ContractDtypes[c]]>>}

\* Raw ccxt candles [timestamp_ms, open, high, low, close, volume].
RawCandles == {<<0, 1, 2, 1, 2, 1>>, <<60000, 1, 1, 2, 1, -1>>,
               <<60000, 3, 4, 3, 4, 0>>}

VARIABLES
    q_src,          \* "table": run_qc_v0 on q_df; "raw": q_raw is normalized first
    q_raw,          \* the raw batch handed to normalize_to_contract
    q_df,           \* the table handed to run_qc_v0
    q_pc,           \* idle, normalized, returned, raised
    q_report,       \* <<the report of run_qc_v0>>, <<>> before
    q_exc           \* the exception that left run_qc_v0 ("" if none)

qvars == <<q_src, q_raw, q_df, q_pc, q_report, q_exc>>

QIdle == q_pc = "idle" /\ q_report = <<>> /\ q_exc = ""
QInit == q_src = "table" /\ q_raw = <<>> /\ q_df = NoFrame /\ QIdle

\* ---------------------------------------------------- src/io/utils.py state
\* TF_SECONDS.
TF_SECONDS == [tf \in {"5m", "1h", "1d"} |->
                  CASE tf = "5m" -> 300 [] tf = "1h" -> 3600 [] tf = "1d" -> 86400]
\* Timeframes handed to floor_utc_to_closed_bar: the supported ones and two
\* that TF_SECONDS does not hold.
UtilTimeframes == {"5m", "1h", "1d", "1m", "4h"}
\* Instants (epoch seconds, before and after 1970) around the bar boundaries.
NowValues ==
    {b + d : b \in {-86400, -3600, -300, 0, 300, 3600, 86400, 172800},
             d \in {-2, -1, 0, 1, 2}}

VARIABLES
    u_now, u_tf,    \* arguments of floor_utc_to_closed_bar
    u_pc,           \* idle, returned, raised
    u_result,       \* the epoch seconds of the returned datetime (None before)
    u_exc           \* the exception raised ("" if none)

uvars == <<u_now, u_tf, u_pc, u_result, u_exc>>

UIdle == u_pc = "idle" /\ u_result = None /\ u_exc = ""
UInit == u_now = 0 /\ u_tf = "5m" /\ UIdle

\* The state of the checks of pure functions.
pvars == <<qvars, uvars>>

vars == <<hvars, svars, fvars, avars, pvars>>

Init == HInit /\ SInit /\ FInit /\ AInit /\ QInit /\ UInit

\* download_ohlcv_history_v1 is called: arguments bound, resume rule applied.
StartRun(s, e, l, r, mb) ==
    /\ pc = "idle"
    /\ runs < MaxRuns
    /\ runs' = runs + 1
    /\ start_ms' = s /\ end_ms' = e /\ limit' = l /\ resume' = r
    /\ max_batches' = mb
    /\ resumed_cursor' = IF r THEN FindLastTimestamp(files) ELSE None
    /\ effective_start_ms' = EffectiveStart(s, r, FindLastTimestamp(files))
    /\ current_since' = effective_start_ms'
    /\ batches' = 0 /\ rows_total' = 0 /\ last_ts_overall' = None
    /\ df' = <<>> /\ saved_path' = None
    /\ returned' = <<>> /\ stop_msg' = "" /\ exc' = ""
    /\ nreq' = 0 /\ first_since' = None /\ last_since' = None
    /\ persisted_before' = PersistedMax(files)
    /\ pc' = "loop"
    /\ UNCHANGED <<files, now_ms, total_req, prev_returned,
                   prev_stop_msg>>
    /\ UNCHANGED <<svars, fvars, avars, pvars>>

\* The checks at the top of the while loop (lines 119 and 123).
EndReached == end_ms # None /\ current_since >= end_ms
MaxBatchesReachedLate == max_batches # None /\ batches > max_batches
MaxBatchesReached == max_batches # None /\ batches >= max_batches

\* HistoryDownloadStats as built after the loop (lines 175-184).
Stats(b, rt, lto) ==
    [batches |-> b, rows_total |-> rt,
     start_ms_effective |-> effective_start_ms,
     end_ms_effective |-> IF lto = None THEN effective_start_ms ELSE lto]

\* The loop is left at its top: end bound or max-batch cap (lines 119-125),
\* then the statistics are returned.
LoopStop ==
    /\ pc = "loop"
    /\ EndReached \/ MaxBatchesReached
    /\ stop_msg' = IF EndReached THEN "Reached end_ms, stop."
                   ELSE "Reached max_batches, stop."
    /\ returned' = <<Stats(batches, rows_total, last_ts_overall)>>
    /\ pc' = "done"
    /\ UNCHANGED <<files, now_ms, start_ms, end_ms, limit, resume, max_batches,
                   effective_start_ms, current_since, batches, rows_total,
                   last_ts_overall, df, saved_path, exc, runs, nreq, total_req,
                   first_since, last_since, resumed_cursor, persisted_before, prev_returned, prev_stop_msg>>
    /\ UNCHANGED <<svars, fvars, avars, pvars>>

\* load_and_qc steps 1-3: one request with since = current_since is answered
\* with a raw batch, which normalize_to_contract turns into df row by row.
Request(raw) ==
    /\ pc = "loop"
    /\ ~EndReached /\ ~MaxBatchesReached
    /\ total_req < MaxRequests
    /\ total_req' = total_req + 1
    /\ nreq' = nreq + 1
    /\ first_since' = IF nreq = 0 THEN current_since ELSE first_since
    /\ last_since' = current_since
    /\ df' = raw
    /\ saved_path' = None
    /\ pc' = "fetched"
    /\ UNCHANGED <<files, now_ms, start_ms, end_ms, limit, resume, max_batches,
                   effective_start_ms, current_since, batches, rows_total,
                   last_ts_overall, returned, stop_msg, exc, runs,
                   resumed_cursor, persisted_before,
                   prev_returned, prev_stop_msg>>
    /\ UNCHANGED <<svars, fvars, avars, pvars>>

\* What load_and_qc can raise before it saves, and whether the exchange was
\* asked: get_exchange_client rejects the exchange before any request; the
\* client's fetch_ohlcv raises a transient or a permanent error;
\* normalize_to_contract raises on a malformed answer.
LoadFailures == {"unsupported_exchange", "transient", "permanent", "normalize"}
IssuesRequest(kind) == kind # "unsupported_exchange"

\* Where an exception of load_and_qc leaves download_ohlcv_history_v1: it has
\* no handler, the exception leaves the function and nothing is returned.
OnExceptionSwallowed == "done"
OnException == "failed"

\* load_and_qc raises before saving.
LoadFails(kind) ==
    /\ pc = "loop"
    /\ ~EndReached /\ ~MaxBatchesReached
    /\ total_req < MaxRequests
    /\ total_req' = total_req + 1
    /\ nreq' = IF IssuesRequest(kind) THEN nreq + 1 ELSE nreq
    /\ first_since' = IF IssuesRequest(kind) /\ nreq = 0 THEN current_since
                      ELSE first_since
    /\ last_since' = IF IssuesRequest(kind) THEN current_since ELSE last_since
    /\ exc' = kind
    /\ pc' = OnException
    /\ UNCHANGED <<files, now_ms, start_ms, end_ms, limit, resume, max_batches,
                   effective_start_ms, current_since, batches, rows_total,
                   last_ts_overall, df, saved_path, returned, stop_msg, runs,
                   resumed_cursor, persisted_before,
                   prev_returned, prev_stop_msg>>
    /\ UNCHANGED <<svars, fvars, avars, pvars>>

\* load_and_qc step 4, first half: now_ms is read and df.to_parquet opens
\* <timeframe>_<now_ms>.parquet at its final path. Until the writer closes it the
\* file exists without its footer and cannot be read. A file of the same
\* millisecond is truncated.
WriteOpen(tick) ==
    /\ pc = "fetched"
    /\ tick = 0 => DOMAIN files # {}
    /\ now_ms' = now_ms + tick
    /\ files' = [n \in DOMAIN files \cup {now_ms'} |->
                    IF n = now_ms' THEN [rows |-> df, complete |-> FALSE]
                    ELSE files[n]]
    /\ saved_path' = now_ms'
    /\ pc' = "writing"
    /\ UNCHANGED <<start_ms, end_ms, limit, resume, max_batches,
                   effective_start_ms, current_since, batches, rows_total,
                   last_ts_overall, df, returned, stop_msg, exc, runs, nreq,
                   total_req, first_since, last_since, resumed_cursor,
                   persisted_before, prev_returned, prev_stop_msg>>
    /\ UNCHANGED <<svars, fvars, avars, pvars>>

\* load_and_qc step 4, second half: the writer finishes the file and
\* load_and_qc returns {"df", "qc", "saved_path"}.
WriteClose ==
    /\ pc = "writing"
    /\ files' = [files EXCEPT ![saved_path].complete = TRUE]
    /\ pc' = "saved"
    /\ UNCHANGED <<now_ms, start_ms, end_ms, limit, resume, max_batches,
                   effective_start_ms, current_since, batches, rows_total,
                   last_ts_overall, df, saved_path, returned, stop_msg, exc,
                   runs, nreq, total_req, first_since, last_since,
                   resumed_cursor, persisted_before, prev_returned,
                   prev_stop_msg>>
    /\ UNCHANGED <<svars, fvars, avars, pvars>>

\* df.to_parquet raises while writing (disk full, I/O error): the exception
\* leaves load_and_qc and download_ohlcv_history_v1; the file stays as it is.
WriteFails ==
    /\ pc = "writing"
    /\ exc' = "write"
    /\ pc' = OnException
    /\ UNCHANGED <<files, now_ms, start_ms, end_ms, limit, resume, max_batches,
                   effective_start_ms, current_since, batches, rows_total,
                   last_ts_overall, df, saved_path, returned, stop_msg, runs,
                   nreq, total_req, first_since, last_since, resumed_cursor,
                   persisted_before, prev_returned,
                   prev_stop_msg>>
    /\ UNCHANGED <<svars, fvars, avars, pvars>>

\* The process is killed at any point of a run.
Crash ==
    /\ pc \in {"loop", "fetched", "writing", "saved"}
    /\ pc' = "crashed"
    /\ UNCHANGED <<files, now_ms, start_ms, end_ms, limit, resume, max_batches,
                   effective_start_ms, current_since, batches, rows_total,
                   last_ts_overall, df, saved_path, returned, stop_msg, exc,
                   runs, nreq, total_req, first_since, last_since,
                   resumed_cursor, persisted_before,
                   prev_returned, prev_stop_msg>>
    /\ UNCHANGED <<svars, fvars, avars, pvars>>

\* The process of a run that returned, raised or was killed is gone, and with
\* it its locals; what stays is the directory, the clock and what the caller got.
Exit ==
    /\ pc \in Terminal
    /\ pc' = "idle"
    /\ prev_returned' = IF pc = "done" /\ batches = 0 THEN returned
                        ELSE prev_returned
    /\ prev_stop_msg' = IF pc = "done" /\ batches = 0 THEN stop_msg
                        ELSE prev_stop_msg
    /\ start_ms' = 0 /\ end_ms' = None /\ limit' = 1 /\ resume' = TRUE
    /\ max_batches' = None
    /\ effective_start_ms' = 0 /\ current_since' = 0
    /\ batches' = 0 /\ rows_total' = 0 /\ last_ts_overall' = None
    /\ df' = <<>> /\ saved_path' = None
    /\ returned' = <<>> /\ stop_msg' = "" /\ exc' = ""
    /\ nreq' = 0 /\ first_since' = None /\ last_since' = None
    /\ resumed_cursor' = None /\ persisted_before' = None
    /\ UNCHANGED <<files, now_ms, runs, total_req>>
    /\ UNCHANGED <<svars, fvars, avars, pvars>>

ChunkReachedEndStrict(last_ts_chunk) == end_ms # None /\ last_ts_chunk > end_ms
\* Line 160: the chunk reached the end bound.
ChunkReachedEnd(last_ts_chunk) == end_ms # None /\ last_ts_chunk >= end_ms
StallDetectedStrict(last_ts_chunk, since) == last_ts_chunk < since
StallDetectedNever(last_ts_chunk, since) == FALSE
\* Line 165: the stall guard.
StallDetected(last_ts_chunk, since) == last_ts_chunk <= since
LoadAndQcReturnedEarly == pc \in {"fetched", "saved"}
\* load_and_qc has returned to the loop: the point where lines 141-173 run.
LoadAndQcReturned == pc = "saved"

\* Lines 141-173 (and 175-192 when the loop is left): the chunk is counted,
\* the three stop rules are tried in order, otherwise the cursor advances.
Advance ==
    /\ LoadAndQcReturned
    /\ IF df = <<>>
       THEN /\ stop_msg' = "Empty chunk received, stop."
            /\ returned' = <<Stats(batches, rows_total, last_ts_overall)>>
            /\ pc' = "done"
            /\ UNCHANGED <<current_since, batches, rows_total, last_ts_overall>>
       ELSE LET last_ts_chunk == SeqMax(df)
                lto == IF last_ts_overall = None THEN last_ts_chunk
                       ELSE IF last_ts_overall > last_ts_chunk
                            THEN last_ts_overall ELSE last_ts_chunk
            IN /\ rows_total' = rows_total + Len(df)
               /\ batches' = batches + 1
               /\ last_ts_overall' = lto
               /\ IF ChunkReachedEnd(last_ts_chunk)
                  THEN /\ stop_msg' = "Last chunk reached end_ms, stop."
                       /\ returned' = <<Stats(batches', rows_total', lto)>>
                       /\ pc' = "done"
                       /\ UNCHANGED current_since
                  ELSE IF StallDetected(last_ts_chunk, current_since)
                  THEN /\ stop_msg' = "last_ts_chunk <= current_since, possible API issue. Stop to avoid infinite loop."
                       /\ returned' = <<Stats(batches', rows_total', lto)>>
                       /\ pc' = "done"
                       /\ UNCHANGED current_since
                  ELSE /\ current_since' = last_ts_chunk + 1
                       /\ pc' = "loop"
                       /\ UNCHANGED <<stop_msg, returned>>
    /\ UNCHANGED <<files, now_ms, start_ms, end_ms, limit, resume, max_batches,
                   effective_start_ms, df, saved_path, exc, runs, nreq,
                   total_req, first_since, last_since, resumed_cursor,
                   persisted_before, prev_returned,
                   prev_stop_msg>>
    /\ UNCHANGED <<svars, fvars, avars, pvars>>

HNext ==
    \/ \E s \in StartValues, e \in EndValues, l \in LimitValues, r \in BOOLEAN,
          mb \in MaxBatchesValues : StartRun(s, e, l, r, mb)
    \/ LoopStop
    \/ \E raw \in Batches(limit) : Request(raw)
    \/ \E kind \in LoadFailures : LoadFails(kind)
    \/ \E tick \in {0, 1} : WriteOpen(tick)
    \/ WriteClose
    \/ WriteFails
    \/ Crash
    \/ Advance
    \/ Exit

SpecHistory == Init /\ [][HNext]_vars

\* One step of a run in which every call of load_and_qc returns: no exception,
\* no kill.
RunStep ==
    \/ LoopStop
    \/ \E raw \in Batches(limit) : Request(raw)
    \/ \E tick \in {0, 1} : WriteOpen(tick)
    \/ WriteClose
    \/ Advance

\* Bounds of the uninterrupted run: end_ms at and above the exchange's latest
\* candle, max_batches of one and two batches.
LiveEndValues == {None, 2, 3}
LiveMaxBatchesValues == {None, 1, 2}

HLiveNext ==
    \/ \E s \in StartValues, e \in LiveEndValues, l \in LimitValues,
          r \in BOOLEAN, mb \in LiveMaxBatchesValues : StartRun(s, e, l, r, mb)
    \/ RunStep

\* A run of download_ohlcv_history_v1 that is not interrupted: the interpreter
\* goes on to the next statement, the exchange answers every request and the
\* write of every partition file completes.
SpecHistoryLive == Init /\ [][HLiveNext]_vars /\ WF_vars(RunStep)

\* ------------------------------------------------- claims: history downloader
StopMessages ==
    {"Reached end_ms, stop.", "Reached max_batches, stop.",
     "Empty chunk received, stop.", "Last chunk reached end_ms, stop.",
     "last_ts_chunk <= current_since, possible API issue. Stop to avoid infinite loop."}

Max2(a, b) == IF a > b THEN a ELSE b

\* C1 (as stated): in a resumed run on a directory whose earlier runs persisted
\* the largest timestamp X, the first request uses since = X + 1 and no request
\* uses since <= X.
C1_ResumeNeverRefetches ==
    (resume /\ persisted_before # None /\ nreq >= 1) =>
        /\ first_since = persisted_before + 1
        /\ last_since > persisted_before

\* C1, the case of an earlier run that got past start_ms and ended on an empty
\* batch, every file being complete: the resumed run still asks for X again.
C1_CaseLastFileWithoutRows ==
    (resume /\ persisted_before # None /\ persisted_before > start_ms
        /\ nreq >= 1 /\ \A n \in DOMAIN files : files[n].complete)
    => last_since > persisted_before

\* C2 (as stated): with resume and a resumed cursor C the effective start, and
\* the since of the first request, is max(start_ms, C + 1); otherwise start_ms.
C2_EffectiveStartIsMax ==
    pc # "idle" =>
        LET claimed == IF resume /\ resumed_cursor # None
                       THEN Max2(start_ms, resumed_cursor + 1)
                       ELSE start_ms
        IN /\ effective_start_ms = claimed
           /\ nreq >= 1 => first_since = claimed

\* C3 (as stated): whenever no run is writing (before a run, after it returned,
\* raised or was killed), every file of the partition directory is complete.
C3_OnlyCompletePartitions ==
    pc \in {"idle"} \cup Terminal =>
        \A n \in DOMAIN files : files[n].complete

\* C4: within a run the cursor current_since changes only in the step after
\* load_and_qc returned with the batch completely written to its file; a failure
\* of fetching, normalizing or writing leaves the cursor as it was and ends the
\* run, so no request follows it.
C4_CursorAfterPersistence ==
    [][ /\ (pc # "idle" /\ pc' # "idle" /\ current_since' # current_since) =>
              /\ pc = "saved" /\ exc = ""
              /\ saved_path \in DOMAIN files
              /\ files[saved_path] = [rows |-> df, complete |-> TRUE]
        /\ (exc = "" /\ exc' # "") =>
              /\ current_since' = current_since
              /\ pc' = "failed"
        /\ pc = "failed" => (pc' = "idle" /\ total_req' = total_req)
      ]_vars

\* C4 witness: a batch was persisted and the cursor advanced, then the write of
\* a later batch failed.
C4_Witness ==
    pc = "failed" /\ exc = "write" /\ batches >= 1
        /\ current_since > effective_start_ms

\* C7: when load_and_qc returned a non-empty batch whose maximum timestamp is
\* <= current_since, the next step ends the run with the cursor unchanged and no
\* new request, and an ended run issues no request.
C7_StallGuard ==
    [][ /\ (pc = "saved" /\ df # <<>> /\ SeqMax(df) <= current_since) =>
              /\ pc' \in Terminal
              /\ current_since' = current_since
              /\ nreq' = nreq /\ total_req' = total_req
        /\ pc \in Terminal => (pc' = "idle" /\ total_req' = total_req)
      ]_vars

\* C7 witness: a run stopped by the stall guard after an earlier batch advanced
\* the cursor.
C7_Witness ==
    /\ pc = "done"
    /\ stop_msg = "last_ts_chunk <= current_since, possible API issue. Stop to avoid infinite loop."
    /\ batches = 2
    /\ current_since > effective_start_ms

C11_OverlapGuard ==
    (pc = "saved" /\ last_ts_overall # None) =>
        \A i \in DOMAIN df : df[i] > last_ts_overall

\* C12: with end_ms set no request has since >= end_ms; the step after a
\* persisted batch whose maximum timestamp is >= end_ms ends the run without a
\* new request, and an ended run issues none.
C12_EndBound ==
    [][ /\ (nreq' > nreq /\ end_ms # None) =>
              (last_since' = current_since /\ last_since' < end_ms)
        /\ (pc = "saved" /\ df # <<>> /\ end_ms # None /\ SeqMax(df) >= end_ms) =>
              /\ pc' \in Terminal
              /\ nreq' = nreq /\ total_req' = total_req
        /\ (pc \in Terminal /\ end_ms # None) => total_req' = total_req
      ]_vars

\* C12 witness: a run with end_ms = 2 asked once, with since < end_ms, and
\* returned after the batch reached the end bound.
C12_Witness ==
    /\ pc = "done" /\ end_ms = 2 /\ batches = 1 /\ nreq = 1
    /\ last_since < end_ms
    /\ stop_msg = "Last chunk reached end_ms, stop."
    /\ last_ts_overall >= end_ms

\* C13: with max_batches = N a run issues at most N requests (none when
\* N = 0) and counts at most N batches; reaching the cap makes the run return
\* its statistics without an exception.
C13_MaxBatchesSoftStop ==
    (pc # "idle" /\ max_batches # None) =>
        /\ nreq <= max_batches
        /\ batches <= max_batches
        /\ pc = "done" => returned[1].batches <= max_batches
        /\ stop_msg = "Reached max_batches, stop." =>
              (pc = "done" /\ exc = "" /\ Len(returned) = 1)

\* C13 witness: a run with max_batches = 1 returned at the cap after one
\* request, and an earlier run with max_batches = 0 returned without a request.
C13_Witness ==
    /\ pc = "done" /\ max_batches = 1 /\ nreq = 1 /\ batches = 1
    /\ stop_msg = "Reached max_batches, stop."
    /\ prev_stop_msg = "Reached max_batches, stop."

\* C15 (as stated): a run with end_ms set persists no row with a timestamp
\* >= end_ms, and when it downloaded a row the end_ms_effective it returns is
\* < end_ms.
C15_EndExclusive ==
    /\ (pc = "saved" /\ end_ms # None) => \A i \in DOMAIN df : df[i] < end_ms
    /\ (pc = "done" /\ end_ms # None /\ rows_total >= 1) =>
          returned[1].end_ms_effective < end_ms

\* ------------------------------------------------------ cursor store steps
\* _load_state: {"items": {}} when state.json is absent, else its content.
LoadState == IF ~state_json.exists THEN <<>> ELSE state_json.items

\* dict.setdefault(k, {}) followed by item[field] = value.
SetField(items, k, field, value) ==
    LET item == IF k \in DOMAIN items THEN items[k] ELSE <<>>
        item2 == [f \in DOMAIN item \cup {field} |->
                     IF f = field THEN value ELSE item[f]]
    IN [x \in DOMAIN items \cup {k} |-> IF x = k THEN item2 ELSE items[x]]

\* The "runs" list of an item, created empty when missing.
RunsOf(items, k) ==
    IF k \in DOMAIN items /\ "runs" \in DOMAIN items[k]
    THEN items[k]["runs"] ELSE <<>>

\* The record appended by record_run ("utc" is the time of the call).
RunRecord(rows_added, from_ts, to_ts, notes) ==
    [utc |-> "now", rows_added |-> rows_added,
     from |-> IsoFormat(ReplaceTzUtc(from_ts)),
     to |-> IsoFormat(ReplaceTzUtc(to_ts)), notes |-> notes]

\* set_cursor lines 184-187: state.json is read (a file that is not complete
\* JSON makes json.load raise) and the writer's key is updated in the copy.
SetCursorLoad(w, last_closed_ts) ==
    /\ wpc[w] = "idle" /\ ops[w] < MaxOps
    /\ IF state_json.exists /\ ~state_json.complete
       THEN /\ wpc' = [wpc EXCEPT ![w] = "raised"]
            /\ UNCHANGED <<local, expected>>
       ELSE /\ local' = [local EXCEPT ![w] =
                   SetField(LoadState, WriterKey(w), "last_closed_ts",
                            IsoFormat(ReplaceTzUtc(last_closed_ts)))]
            /\ expected' = [expected EXCEPT ![w] =
                   SetField(expected[w], WriterKey(w), "last_closed_ts",
                            IsoFormat(ReplaceTzUtc(last_closed_ts)))]
            /\ wpc' = [wpc EXCEPT ![w] = "modified"]
    /\ UNCHANGED <<state_json, tmp, ops>>
    /\ UNCHANGED <<hvars, fvars, avars, pvars>>

\* record_run lines 228-243: the same with a record appended to "runs".
RecordRunLoad(w, rows_added, from_ts, to_ts) ==
    /\ wpc[w] = "idle" /\ ops[w] < MaxOps
    /\ IF state_json.exists /\ ~state_json.complete
       THEN /\ wpc' = [wpc EXCEPT ![w] = "raised"]
            /\ UNCHANGED <<local, expected>>
       ELSE /\ local' = [local EXCEPT ![w] =
                   SetField(LoadState, WriterKey(w), "runs",
                       Append(RunsOf(LoadState, WriterKey(w)),
                              RunRecord(rows_added, from_ts, to_ts, "")))]
            /\ expected' = [expected EXCEPT ![w] =
                   SetField(expected[w], WriterKey(w), "runs",
                       Append(RunsOf(expected[w], WriterKey(w)),
                              RunRecord(rows_added, from_ts, to_ts, "")))]
            /\ wpc' = [wpc EXCEPT ![w] = "modified"]
    /\ UNCHANGED <<state_json, tmp, ops>>
    /\ UNCHANGED <<hvars, fvars, avars, pvars>>

\* _atomic_write_json lines 40-41: mkstemp creates an empty file with a fresh
\* name in the directory of state.json.
MkTemp(w) ==
    /\ wpc[w] = "modified"
    /\ tmp' = [tmp EXCEPT ![w] = [exists |-> TRUE, complete |-> FALSE,
                                  items |-> <<>>]]
    /\ wpc' = [wpc EXCEPT ![w] = "tmp_created"]
    /\ UNCHANGED <<state_json, local, expected, ops>>
    /\ UNCHANGED <<hvars, fvars, avars, pvars>>

\* Lines 42-43, first part: json.dump has written part of the payload.
DumpSome(w) ==
    /\ wpc[w] = "tmp_created"
    /\ tmp' = [tmp EXCEPT ![w] = [exists |-> TRUE, complete |-> FALSE,
                                  items |-> local[w]]]
    /\ wpc' = [wpc EXCEPT ![w] = "dumping"]
    /\ UNCHANGED <<state_json, local, expected, ops>>
    /\ UNCHANGED <<hvars, fvars, avars, pvars>>

\* Lines 42-43, end of the with block: the payload is written and the file closed.
DumpAll(w) ==
    /\ wpc[w] = "dumping"
    /\ tmp' = [tmp EXCEPT ![w] = [exists |-> TRUE, complete |-> TRUE,
                                  items |-> local[w]]]
    /\ wpc' = [wpc EXCEPT ![w] = "dumped"]
    /\ UNCHANGED <<state_json, local, expected, ops>>
    /\ UNCHANGED <<hvars, fvars, avars, pvars>>

ReplaceReadyEarly(w) == wpc[w] \in {"dumping", "dumped"}
\* Line 44 is reached after the with block has closed the temporary file.
ReplaceReady(w) == wpc[w] = "dumped"

\* Line 44: os.replace puts the temporary file in the place of state.json in one
\* step; the call returns.
Replace(w) ==
    /\ ReplaceReady(w)
    /\ state_json' = tmp[w]
    /\ tmp' = [tmp EXCEPT ![w] = NoFile]
    /\ wpc' = [wpc EXCEPT ![w] = "idle"]
    /\ ops' = [ops EXCEPT ![w] = ops[w] + 1]
    /\ local' = [local EXCEPT ![w] = <<>>]
    /\ UNCHANGED expected
    /\ UNCHANGED <<hvars, fvars, avars, pvars>>

\* A writer is killed between two steps of a call; its temporary file stays.
WriterCrash(w) ==
    /\ wpc[w] \in {"modified", "tmp_created", "dumping", "dumped"}
    /\ wpc' = [wpc EXCEPT ![w] = "crashed"]
    /\ local' = [local EXCEPT ![w] = <<>>]
    /\ UNCHANGED <<state_json, tmp, expected, ops>>
    /\ UNCHANGED <<hvars, fvars, avars, pvars>>

SNext ==
    \/ \E w \in Writers, d \in DateTimes : SetCursorLoad(w, d)
    \/ \E w \in Writers, r \in RowsAdded, range \in RunRanges :
          RecordRunLoad(w, r, range[1], range[2])
    \/ \E w \in Writers : MkTemp(w)
    \/ \E w \in Writers : DumpSome(w)
    \/ \E w \in Writers : DumpAll(w)
    \/ \E w \in Writers : Replace(w)
    \/ \E w \in Writers : WriterCrash(w)

SpecStore == Init /\ [][SNext]_vars

\* ---------------------------------------------------- claims: cursor store
\* C5 (as stated): when the writers of two different keys have finished their
\* calls, state.json holds every update of both.
C5_NoLostUpdate ==
    (\A w \in Writers : wpc[w] = "idle" /\ ops[w] >= 1) =>
        \A w \in Writers :
            /\ WriterKey(w) \in DOMAIN state_json.items
            /\ state_json.items[WriterKey(w)] = expected[w][WriterKey(w)]

\* C6: every step leaves state.json either as it was or holding the complete
\* payload of a writer whose temporary file was completely written; state.json
\* is never a half-written file, also with writers killed at any step, and no
\* _load_state finds one (json.load never raises).
C6_AtomicReplace ==
    [][ /\ state_json' # state_json =>
              \E w \in Writers :
                  /\ wpc[w] = "dumped"
                  /\ state_json' = [exists |-> TRUE, complete |-> TRUE,
                                    items |-> local[w]]
        /\ state_json'.exists => state_json'.complete
        /\ \A w \in Writers : wpc'[w] # "raised"
      ]_vars

\* C6 witness: one writer was killed while writing its temporary file after the
\* other had replaced state.json, which the other then loaded again.
C6_Witness ==
    \E w, v \in Writers :
        /\ wpc[w] = "crashed" /\ tmp[w].exists /\ ~tmp[w].complete
        /\ tmp[w].items # <<>>
        /\ state_json.exists /\ state_json.complete
        /\ ops[v] = 1 /\ wpc[v] = "modified"

\* datetime.fromisoformat: the reading and the zone of the stored text.
FromIsoFormat(s) == [wall |-> s[1], tzinfo |-> IF s[2] = "+00:00" THEN "UTC" ELSE "None"]

\* get_cursor: <<>> stands for None, <<d>> for the datetime d.
GetCursor(exchange, symbol, tf) ==
    LET items == LoadState
        k == Key(exchange, symbol, tf)
    IN IF k \notin DOMAIN items THEN <<>>
       ELSE IF "last_closed_ts" \notin DOMAIN items[k] THEN <<>>
       ELSE <<FromIsoFormat(items[k]["last_closed_ts"])>>

\* The stream download_ohlcv_history_v1 works on.
HistoryStream == WriterStream(1)

\* C14 (as stated): no cursor exists for the stream before its first batch is
\* persisted, and once a run of download_ohlcv_history_v1 has returned with a
\* batch persisted, get_cursor gives a timestamp for the stream and its item
\* holds a run record.
C14_CursorFollowsPersistence ==
    LET s == HistoryStream IN
    /\ (\A n \in DOMAIN files : ~files[n].complete) =>
          GetCursor(s.exchange, s.symbol, s.tf) = <<>>
    /\ (pc = "done" /\ batches >= 1) =>
          /\ GetCursor(s.exchange, s.symbol, s.tf) # <<>>
          /\ RunsOf(LoadState, Key(s.exchange, s.symbol, s.tf)) # <<>>

\* ------------------------------------------------------- fetch_ohlcv steps
Last(s) == s[Len(s)]

RECURSIVE DropDuplicates(_)
\* drop_duplicates(subset="timestamp"): the first row of each timestamp is kept.
DropDuplicates(s) ==
    IF s = <<>> THEN <<>>
    ELSE LET init == DropDuplicates(SubSeq(s, 1, Len(s) - 1))
         IN IF \E i \in DOMAIN init : init[i] = Last(s) THEN init
            ELSE Append(init, Last(s))

RECURSIVE SortValues(_)
\* sort_values("timestamp") of a column without duplicates.
SortValues(s) ==
    IF s = <<>> THEN <<>>
    ELSE LET i == CHOOSE k \in DOMAIN s : \A j \in DOMAIN s : s[k] <= s[j]
         IN <<s[i]>> \o SortValues(SubSeq(s, 1, i - 1) \o SubSeq(s, i + 1, Len(s)))

\* Lines 183-189: the returned index, rows of [since, until] only.
FetchFrame(data, since, until) ==
    SelectSeq(SortValues(DropDuplicates(data)),
              LAMBDA ts : ts >= since /\ ts <= until)

\* Lines 173-199: what follows the loop. Without rows an empty frame is
\* returned; a frame left without rows by the range mask makes the final log
\* line raise, since the minimum of an empty index has no date.
AfterLoop(data) ==
    /\ IF data # <<>> /\ FetchFrame(data, since_arg, until_ms) = <<>>
       THEN f_pc' = "raised" /\ f_exc' = "ValueError" /\ f_result' = <<>>
       ELSE /\ f_pc' = "returned" /\ f_exc' = f_exc
            /\ f_result' = FetchFrame(data, since_arg, until_ms)

\* fetch_ohlcv is called (lines 112-135): the arguments are checked, the
\* exchange object is made, the counters are set.
FetchCall(since, until, lim, delta, known_exchange) ==
    /\ f_pc = "idle"
    /\ since_arg' = since /\ since_ms' = since /\ until_ms' = until
    /\ fetch_limit' = lim /\ delta_ms' = delta
    /\ IF since >= until
       THEN f_pc' = "raised" /\ f_exc' = "ValueError"
       ELSE IF ~known_exchange
       THEN f_pc' = "raised" /\ f_exc' = "AttributeError"
       ELSE f_pc' = "loop" /\ f_exc' = ""
    /\ UNCHANGED <<attempt, all_data, autosave, f_result, slept, ok_requests,
                   consec_failed, perm_raised, asked_after_perm>>
    /\ UNCHANGED <<hvars, svars, avars, pvars>>

\* The overlap filter of lines 162-163.
OverlapFilter(data, ohlcv) ==
    IF data # <<>> /\ ohlcv[1] <= Last(data)
    THEN SelectSeq(ohlcv, LAMBDA ts : ts > Last(data))
    ELSE ohlcv

\* One iteration whose request is answered (lines 145-179).
FetchOk(ohlcv) ==
    /\ f_pc = "loop" /\ since_ms < until_ms
    /\ ok_requests < MaxFetchOk
    /\ ok_requests' = ok_requests + 1
    /\ attempt' = 0
    /\ consec_failed' = 0
    /\ asked_after_perm' = (asked_after_perm \/ perm_raised)
    /\ IF ohlcv = <<>>
       THEN /\ AfterLoop(all_data)
            /\ UNCHANGED <<all_data, since_ms, autosave>>
       ELSE LET kept == OverlapFilter(all_data, ohlcv)
                data == all_data \o kept
            IN /\ all_data' = data
               /\ IF kept = <<>>
                  THEN \* ohlcv[-1] of an empty list
                       /\ f_pc' = "raised" /\ f_exc' = "IndexError"
                       /\ UNCHANGED <<since_ms, autosave, f_result>>
                  ELSE /\ since_ms' = Last(kept) + delta_ms
                       /\ autosave' = IF Len(data) % autosave_rows < fetch_limit
                                      THEN data ELSE autosave
                       /\ UNCHANGED <<f_pc, f_exc, f_result>>
    /\ UNCHANGED <<until_ms, since_arg, fetch_limit, delta_ms, slept,
                   perm_raised>>
    /\ UNCHANGED <<hvars, svars, avars, pvars>>

AttemptsExhaustedLate(a) == a > max_attempts
\* Line 151.
AttemptsExhausted(a) == a >= max_attempts

\* One iteration whose request raises (lines 145-156): every exception of the
\* exchange is caught the same way.
FetchRaises(kind) ==
    /\ f_pc = "loop" /\ since_ms < until_ms
    /\ attempt' = attempt + 1
    /\ consec_failed' = consec_failed + 1
    /\ asked_after_perm' = (asked_after_perm \/ perm_raised)
    /\ perm_raised' = (perm_raised \/ kind = "permanent")
    /\ IF AttemptsExhausted(attempt')
       THEN AfterLoop(all_data) /\ UNCHANGED slept
       ELSE slept' = 5 * attempt' /\ UNCHANGED <<f_pc, f_exc, f_result>>
    /\ UNCHANGED <<since_ms, until_ms, since_arg, fetch_limit, delta_ms,
                   all_data, autosave, ok_requests>>
    /\ UNCHANGED <<hvars, svars, avars, pvars>>

\* The loop condition fails (line 145): the rows are returned.
FetchLoopEnds ==
    /\ f_pc = "loop" /\ since_ms >= until_ms
    /\ AfterLoop(all_data)
    /\ UNCHANGED <<since_ms, until_ms, since_arg, fetch_limit, delta_ms,
                   attempt, all_data, autosave, slept, ok_requests,
                   consec_failed, perm_raised, asked_after_perm>>
    /\ UNCHANGED <<hvars, svars, avars, pvars>>

FNext ==
    \/ \E s \in SinceValues, u \in UntilValues, l \in FetchLimitValues,
          d \in DeltaValues, k \in BOOLEAN : FetchCall(s, u, l, d, k)
    \/ \E ohlcv \in Batches(fetch_limit) : FetchOk(ohlcv)
    \/ \E kind \in ExchangeErrors : FetchRaises(kind)
    \/ FetchLoopEnds

SpecFetch == Init /\ [][FNext]_vars

\* ------------------------------------------------------ claims: fetch_ohlcv
\* C8: the requests of fetch_ohlcv that failed in a row never number more
\* than max_attempts; when they reach it the loop has stopped, so that no
\* request follows; an answered request sets the attempt counter back to 0 (the
\* counter equals the number of failures since the latest answer).
C8_RetriesBounded ==
    /\ consec_failed <= max_attempts
    /\ consec_failed >= max_attempts => f_pc \in {"returned", "raised"}
    /\ attempt = consec_failed

\* C8 witness: after an answered request, max_attempts failures in a row ended
\* the loop.
C8_Witness ==
    /\ f_pc = "returned" /\ consec_failed = max_attempts
    /\ ok_requests >= 1 /\ slept = 5 * (max_attempts - 1)

\* C9 (as stated): after the exchange raised a permanent error no further
\* request is issued.
C9_PermanentErrorNotRetried == ~asked_after_perm

\* -------------------------------------------------- aggregator and QC steps
\* DataFrame.empty: no rows or no columns.
FrameEmpty(frame) == frame.rows = <<>> \/ frame.columns = {}

RECURSIVE ConcatRows(_)
ConcatRows(frames) ==
    IF frames = <<>> THEN <<>>
    ELSE frames[1].rows \o ConcatRows(Tail(frames))

\* _load_all_parquet: every file is read and the frames are concatenated in
\* the order of the list, with a fresh index. The files of a directory have
\* the same columns and dtypes, which the concatenation keeps.
LoadAllParquet(fs) ==
    IF fs = <<>> THEN NoFrame
    ELSE [columns |-> fs[1].columns, order |-> fs[1].order,
          dtypes |-> fs[1].dtypes, rows |-> ConcatRows(fs)]

\* The orders a sequence can be put in.
Perms(s) ==
    {[i \in DOMAIN s |-> s[f[i]]] : f \in Permutations(DOMAIN s)}

RECURSIVE SortOutcomes(_)
\* sort_values("timestamp") with the default kind="quicksort": the result is
\* ascending, and rows of equal timestamp come in an order that the sorting
\* routine of the installed numpy decides (the sort is not stable).
SortOutcomes(rows) ==
    IF rows = <<>> THEN {<<>>}
    ELSE LET m == CHOOSE x \in {rows[i].timestamp : i \in DOMAIN rows} :
                      \A i \in DOMAIN rows : x <= rows[i].timestamp
             grp == SelectSeq(rows, LAMBDA r : r.timestamp = m)
             rest == SelectSeq(rows, LAMBDA r : r.timestamp # m)
         IN {g \o r : g \in Perms(grp), r \in SortOutcomes(rest)}

\* _sort_by_timestamp: the frames it can return.
SortByTimestamp(frame) ==
    IF FrameEmpty(frame) \/ "timestamp" \notin frame.columns THEN {frame}
    ELSE {[frame EXCEPT !.rows = r] : r \in SortOutcomes(frame.rows)}

\* The key of a row over the key columns.
RowKey(row) == [c \in KeyCols |-> row[c]]

DropDuplicatesNone(rows) == rows
DropDuplicatesOnePass(rows) ==
    LET dups == {i \in DOMAIN rows :
                    \E j \in 1..(i - 1) : rows[j].timestamp = rows[i].timestamp}
    IN IF dups = {} THEN rows
       ELSE LET d == CHOOSE x \in dups : \A y \in dups : x <= y
            IN SubSeq(rows, 1, d - 1) \o SubSeq(rows, d + 1, Len(rows))
\* drop_duplicates(subset=key_cols, keep="first").
DropDuplicatesKeepFirst(rows) ==
    LET kept == {i \in DOMAIN rows :
                    \A j \in 1..(i - 1) : RowKey(rows[j]) # RowKey(rows[i])}
        F[i \in 0..Len(rows)] ==
            IF i = 0 THEN <<>>
            ELSE IF i \in kept THEN Append(F[i - 1], rows[i]) ELSE F[i - 1]
    IN F[Len(rows)]

\* Lines 70-74: a frame without one of the key columns is returned untouched.
MissingKeyColsUntouched(frame) == ~(KeyCols \subseteq frame.columns)

\* _deduplicate_df.
DeduplicateDf(frame) ==
    IF FrameEmpty(frame) THEN frame
    ELSE IF MissingKeyColsUntouched(frame) THEN frame
    ELSE [frame EXCEPT !.rows = DropDuplicatesKeepFirst(frame.rows)]

\* The index of a frame: the labels 0..n-1 in the order of the rows.
RangeIndex(rows) == [i \in DOMAIN rows |-> i - 1]

\* neg_mask of _detect_dirty_prices and _detect_negative_values.
NegMask(row) ==
    row.open < 0 \/ row.high < 0 \/ row.low < 0 \/ row.close < 0
        \/ row.volume < 0
\* dirty_mask of _detect_dirty_prices.
DirtyMask(row) ==
    row.low > row.high \/ row.open > row.high \/ row.open < row.low
        \/ row.close > row.high \/ row.close < row.low

FinalMaskWithNegatives(row) == DirtyMask(row)
\* final_mask of _detect_dirty_prices: dirty_mask & (~neg_mask).
FinalMask(row) == DirtyMask(row) /\ ~NegMask(row)

DetectDirtyPrices(frame) ==
    IF FrameEmpty(frame) THEN <<>>
    ELSE SelectSeq(RangeIndex(frame.rows), LAMBDA l : FinalMask(frame.rows[l + 1]))
DetectNegativeValues(frame) ==
    IF FrameEmpty(frame) THEN <<>>
    ELSE SelectSeq(RangeIndex(frame.rows), LAMBDA l : NegMask(frame.rows[l + 1]))
\* duplicated(keep="first"): every row of a group but its first.
DetectDuplicatesKeepFirst(frame) ==
    IF FrameEmpty(frame) THEN <<>>
    ELSE SelectSeq(RangeIndex(frame.rows),
                   LAMBDA l : \E j \in 1..l :
                       RowKey(frame.rows[j]) = RowKey(frame.rows[l + 1]))
\* _detect_duplicates: duplicated(keep=False) marks every row of a group.
DetectDuplicates(frame) ==
    IF FrameEmpty(frame) THEN <<>>
    ELSE SelectSeq(RangeIndex(frame.rows),
                   LAMBDA l : \E j \in DOMAIN frame.rows :
                       j # l + 1 /\ RowKey(frame.rows[j]) = RowKey(frame.rows[l + 1]))

\* _check_structure: the names, the order and the number of the columns.
CheckStructure(frame) == frame.order = EXPECTED_COLUMNS

\* _check_dtypes: False on the first column whose dtype differs from the
\* contract's, and False when a column is missing (the KeyError is caught).
CheckDtypes(frame) ==
    IF ~(ExpectedColumns \subseteq frame.columns) THEN FALSE
    ELSE \A c \in ExpectedColumns : frame.dtypes[c] = ContractDtypes[c]

InferTimeframeMsFirstRow(frame) ==
    IF FrameEmpty(frame) THEN None
    ELSE IF frame.rows[1].timeframe \in DOMAIN TIMEFRAME_TO_MS
    THEN TIMEFRAME_TO_MS[frame.rows[1].timeframe]
    ELSE None
\* _infer_timeframe_ms: the step of the only timeframe of the table, None when
\* the table is empty, holds several timeframes, or the dictionary lacks it.
InferTimeframeMs(frame) ==
    IF FrameEmpty(frame) THEN None
    ELSE LET unique_tfs == {frame.rows[i].timeframe : i \in DOMAIN frame.rows}
         IN IF Cardinality(unique_tfs) # 1 THEN None
            ELSE LET tf == CHOOSE x \in unique_tfs : TRUE
                 IN IF tf \in DOMAIN TIMEFRAME_TO_MS THEN TIMEFRAME_TO_MS[tf]
                    ELSE None

RECURSIVE ExpectedUpTo(_, _, _)
\* The while loop of lines 132-136: expected, expected + step, ... below cur.
ExpectedUpTo(expected_ts, cur, step_ms) ==
    IF expected_ts < cur
    THEN <<expected_ts>> \o ExpectedUpTo(expected_ts + step_ms, cur, step_ms)
    ELSE <<>>

RECURSIVE MissingInPairs(_, _)
\* The for loop of lines 128-136 over zip(ts, ts[1:]).
MissingInPairs(ts, step_ms) ==
    IF Len(ts) < 2 THEN <<>>
    ELSE LET prev == ts[1]
             cur == ts[2]
             here == IF cur - prev > step_ms
                     THEN ExpectedUpTo(prev + step_ms, cur, step_ms)
                     ELSE <<>>
         IN here \o MissingInPairs(Tail(ts), step_ms)

\* _detect_missing_timestamps.
DetectMissingTimestamps(frame) ==
    IF FrameEmpty(frame) THEN <<>>
    ELSE LET step_ms == InferTimeframeMs(frame) IN
         IF step_ms = None THEN <<>>
         ELSE MissingInPairs(
                  SortSeq([i \in DOMAIN frame.rows |-> frame.rows[i].timestamp],
                          LAMBDA a, b : a < b),
                  step_ms)

\* run_qc_v0 raises KeyError when a non-empty frame lacks a column of the
\* contract: a key column in df.duplicated(subset=...) of _detect_duplicates,
\* a price or volume column in the masks of _detect_dirty_prices.
QcRaises(frame) ==
    ~FrameEmpty(frame) /\ ~(ExpectedColumns \subseteq frame.columns)

\* run_qc_v0: the report (without its summary string, which repeats the
\* other fields).
RunQcV0(frame) ==
    [structure_ok |-> CheckStructure(frame),
     dtype_ok |-> CheckDtypes(frame),
     duplicates |-> Len(DetectDuplicates(frame)),
     missing_timestamps |-> DetectMissingTimestamps(frame),
     dirty_price_rows |-> DetectDirtyPrices(frame),
     negative_values |-> DetectNegativeValues(frame)]

SeqToSet(s) == {s[i] : i \in DOMAIN s}

BadIndicesDirtyOnly(qc_report) == SeqToSet(qc_report.dirty_price_rows)
\* Line 97: set(dirty + negative).
BadIndices(qc_report) ==
    SeqToSet(qc_report.dirty_price_rows \o qc_report.negative_values)

\* _drop_dirty_rows: the rows whose index label is in the report are dropped.
DropDirtyRows(frame, qc_report) ==
    IF FrameEmpty(frame) THEN frame
    ELSE IF qc_report.dirty_price_rows = <<>> /\ qc_report.negative_values = <<>>
    THEN frame
    ELSE LET keep == SelectSeq(RangeIndex(frame.rows),
                               LAMBDA l : l \notin BadIndices(qc_report))
         IN [frame EXCEPT !.rows = [i \in DOMAIN keep |-> frame.rows[keep[i] + 1]]]

DiscoverFailsNoDirOnly(base, fs) == base # "dir"
\* _discover_parquet_files raises FileNotFoundError: base_dir does not exist or
\* is not a directory (line 29), or the glob *.parquet matches nothing (line 33).
DiscoverFails(base, fs) == base # "dir" \/ fs = <<>>

\* aggregate_ohlcv_v0(exchange, symbol, timeframe, root_dir, drop_dirty,
\* recheck_qc) as a whole; sorted is the frame _sort_by_timestamp returned.
Aggregate(drop_dirty, recheck_qc, sorted) ==
    /\ a_pc = "idle"
    /\ a_drop_dirty' = drop_dirty /\ a_recheck_qc' = recheck_qc
    /\ IF DiscoverFails(a_base, a_files)
       THEN \* _discover_parquet_files: no directory or no file in it
            /\ a_pc' = "raised" /\ a_exc' = "FileNotFoundError"
            /\ UNCHANGED <<a_dedup, a_result>>
       ELSE LET dedup == DeduplicateDf(sorted)
                runs_qc == drop_dirty \/ recheck_qc
            IN /\ a_dedup' = dedup
               /\ IF runs_qc /\ QcRaises(dedup)
                  THEN /\ a_pc' = "raised" /\ a_exc' = "KeyError"
                       /\ UNCHANGED a_result
                  ELSE LET qc_before == IF runs_qc THEN <<RunQcV0(dedup)>>
                                        ELSE <<>>
                           clean == IF drop_dirty
                                    THEN DropDirtyRows(dedup, qc_before[1])
                                    ELSE dedup
                       IN /\ a_result' =
                               [df |-> clean, qc_before_clean |-> qc_before,
                                qc_after_clean |-> IF recheck_qc
                                                   THEN <<RunQcV0(clean)>>
                                                   ELSE <<>>]
                          /\ a_pc' = "returned" /\ a_exc' = ""
    /\ UNCHANGED <<a_base, a_files, a_round, a_rows_found>>
    /\ UNCHANGED <<hvars, svars, fvars, pvars>>

\* The table returned with drop_dirty=True is written with to_parquet as the
\* single partition file of a stream directory, which is then aggregated.
StoreResult ==
    /\ a_pc = "returned" /\ a_round = 1 /\ a_drop_dirty
    /\ a_files' = <<a_result.df>>
    /\ a_round' = 2
    /\ a_rows_found' = Len(ConcatRows(a_files))
    /\ a_pc' = "idle"
    /\ a_dedup' = NoFrame
    /\ a_result' = NoResult /\ a_exc' = ""
    /\ UNCHANGED <<a_base, a_drop_dirty, a_recheck_qc>>
    /\ UNCHANGED <<hvars, svars, fvars, pvars>>

ANext ==
    \/ \E drop_dirty, recheck_qc \in BOOLEAN :
          \E sorted \in SortByTimestamp(LoadAllParquet(a_files)) :
              Aggregate(drop_dirty, recheck_qc, sorted)
    \/ StoreResult

\* The aggregator is checked from every directory drawn from the bounded sets.
InitAgg ==
    /\ HInit /\ SInit /\ FInit /\ QInit /\ UInit
    /\ \/ a_base \in {"absent", "not_dir"} /\ a_files = <<>>
       \/ /\ a_base = "dir"
          /\ \E cols \in Schemas, n \in 0..MaxDirRows :
                \E s \in [1..n -> StreamRows], k \in 0..n, parts \in 0..2 :
                    a_files = Dir(cols, s, k, parts)
    /\ AIdle

SpecAgg == InitAgg /\ [][ANext]_vars

\* ------------------------------------------------------- claims: aggregator
\* Rows in ascending order of timestamp.
SortedByTimestamp(rows) ==
    \A i, j \in DOMAIN rows : i < j => rows[i].timestamp <= rows[j].timestamp
\* No two rows with the same key.
UniqueKeys(rows) ==
    \A i, j \in DOMAIN rows : i # j => RowKey(rows[i]) # RowKey(rows[j])

\* C16 (as stated): of the rows that share a key, the deduplicated table keeps
\* the one that comes first when the files are read in the sorted order of their
\* paths (the earliest row of the smallest path).
C16_DedupKeepsFirstInPathOrder ==
    (a_pc = "returned" /\ KeyCols \subseteq a_dedup.columns) =>
        LET all == ConcatRows(a_files) IN
        \A i \in DOMAIN a_dedup.rows :
            \E j \in DOMAIN all :
                /\ all[j] = a_dedup.rows[i]
                /\ \A k \in 1..(j - 1) : RowKey(all[k]) # RowKey(all[j])

C18_DropDirtyExact ==
    (a_pc = "returned" /\ a_drop_dirty) =>
        /\ Len(a_result.qc_before_clean) = 1
        /\ LET qc == a_result.qc_before_clean[1]
               bad == SeqToSet(qc.dirty_price_rows) \cup SeqToSet(qc.negative_values)
               kept == SelectSeq([i \in DOMAIN a_dedup.rows |-> i],
                                 LAMBDA i : (i - 1) \notin bad)
           IN /\ qc = RunQcV0(a_dedup)
              /\ a_result.df.columns = a_dedup.columns
              /\ a_result.df.rows = [i \in DOMAIN kept |-> a_dedup.rows[kept[i]]]
              /\ \A i \in DOMAIN a_dedup.rows :
                    (NegMask(a_dedup.rows[i]) \/ DirtyMask(a_dedup.rows[i]))
                        <=> (i - 1) \in bad
        /\ (KeyCols \subseteq a_dedup.columns) =>
              SortedByTimestamp(a_dedup.rows) /\ UniqueKeys(a_dedup.rows)

\* C18 witness: the first of the two rows of the deduplicated table is flagged
\* and the second is returned.
C18_Witness ==
    /\ a_pc = "returned" /\ a_drop_dirty /\ a_round = 1
    /\ Len(a_dedup.rows) = 2
    /\ a_result.qc_before_clean[1].negative_values = <<0>>
    /\ a_result.df.rows = <<a_dedup.rows[2]>>

\* C19: when the table returned with drop_dirty=True is stored as the only
\* partition and aggregated again with drop_dirty=True, the table returned is
\* the stored one, row by row: deduplication and cleaning drop nothing.
C19_MergeIdempotent ==
    (a_round = 2 /\ a_pc = "returned" /\ a_drop_dirty) =>
        /\ a_dedup = a_files[1]
        /\ a_result.df = a_files[1]

\* C19 witness: the first call dropped one of three rows, the second call
\* returned the two stored rows.
C19_Witness ==
    /\ a_round = 2 /\ a_pc = "returned" /\ a_drop_dirty
    /\ a_rows_found = 3
    /\ Len(a_result.df.rows) = 2

\* C20 (as stated): when the partition files lack a canonical column, every
\* call of aggregate_ohlcv_v0 fails with an error; none returns a table.
C20_SchemaFailureIsFatal ==
    (a_pc # "idle" /\ a_files # <<>>
        /\ \E i \in DOMAIN a_files : a_files[i].columns # ExpectedColumns)
    => a_pc = "raised"

\* C21: aggregate_ohlcv_v0 ends with FileNotFoundError, returning no table,
\* exactly when base_dir does not exist, is not a directory, or holds no
\* *.parquet file; with a *.parquet file in the directory it never fails this
\* way.
C21_NotFoundIffNoPartition ==
    a_pc # "idle" =>
        /\ (a_base # "dir" \/ a_files = <<>>) =>
              (a_pc = "raised" /\ a_exc = "FileNotFoundError"
                  /\ a_result = NoResult)
        /\ (a_base = "dir" /\ a_files # <<>>) => a_exc # "FileNotFoundError"

\* C21 witness: the directory exists and holds no *.parquet file.
C21_Witness ==
    /\ a_pc = "raised" /\ a_exc = "FileNotFoundError"
    /\ a_base = "dir" /\ a_files = <<>>

\* ------------------------------- run_qc_v0 and normalize_to_contract steps
\* normalize_to_contract(raw_candles, exchange_name, symbol, timeframe). An
\* empty batch gives pd.DataFrame(columns=[...]), whose columns all have the
\* dtype object; otherwise timestamp is cast to int64 and the price and volume
\* columns to float64 (the values of the modelled candles are integers that
\* both casts keep), and the three constant columns are inserted.
NormalizeToContract(raw_candles, exchange_name, symbol, timeframe) ==
    IF raw_candles = <<>>
    THEN Table(EXPECTED_COLUMNS, [c \in ExpectedColumns |-> "object"], <<>>)
    ELSE Table(EXPECTED_COLUMNS, ContractDtypes,
               [i \in DOMAIN raw_candles |->
                   [exchange |-> exchange_name, symbol |-> symbol,
                    timeframe |-> timeframe,
                    timestamp |-> raw_candles[i][1], open |-> raw_candles[i][2],
                    high |-> raw_candles[i][3], low |-> raw_candles[i][4],
                    close |-> raw_candles[i][5], volume |-> raw_candles[i][6]]])

\* load_and_qc step 2: the raw batch is normalized.
Normalize ==
    /\ q_src = "raw" /\ q_pc = "idle"
    /\ q_df' = NormalizeToContract(q_raw, "binance", "BTC/USDT", "1m")
    /\ q_pc' = "normalized"
    /\ UNCHANGED <<q_src, q_raw, q_report, q_exc, uvars>>
    /\ UNCHANGED <<hvars, svars, fvars, avars>>

\* run_qc_v0(q_df): on a table given as it is, or on the normalized batch
\* (load_and_qc step 3).
RunQc ==
    /\ q_pc = (IF q_src = "raw" THEN "normalized" ELSE "idle")
    /\ IF QcRaises(q_df)
       THEN q_pc' = "raised" /\ q_exc' = "KeyError" /\ UNCHANGED q_report
       ELSE q_pc' = "returned" /\ q_report' = <<RunQcV0(q_df)>> /\ UNCHANGED q_exc
    /\ UNCHANGED <<q_src, q_raw, q_df, uvars>>
    /\ UNCHANGED <<hvars, svars, fvars, avars>>

QNext == Normalize \/ RunQc

\* run_qc_v0 is checked on every table, and normalize_to_contract on every raw
\* batch, drawn from the bounded sets.
InitQc ==
    /\ HInit /\ SInit /\ FInit /\ AInit /\ UInit
    /\ QIdle
    /\ \/ /\ q_src = "table" /\ q_raw = <<>>
          /\ \E sch \in QcSchemas, n \in 0..MaxQcRows :
                \E s \in [1..n -> QcRows] : q_df = Table(sch[1], sch[2], s)
       \/ /\ q_src = "raw" /\ q_df = NoFrame
          /\ \E n \in 0..MaxQcRows : q_raw \in [1..n -> RawCandles]

SpecQc == InitQc /\ [][QNext]_vars

\* ------------------------------- claims: run_qc_v0 and normalize_to_contract
\* C22: in every report the lists negative_values and dirty_price_rows are
\* disjoint; a row with one of open, high, low, close, volume below 0 is in
\* negative_values and not in dirty_price_rows; a row with no negative field
\* is not in negative_values and is in dirty_price_rows exactly when low > high,
\* open > high, open < low, close > high or close < low.
C22_NegativeBeforeDirty ==
    q_pc = "returned" =>
        LET rows == q_df.rows
            neg == SeqToSet(q_report[1].negative_values)
            dirty == SeqToSet(q_report[1].dirty_price_rows)
        IN /\ neg \cap dirty = {}
           /\ neg \cup dirty \subseteq {i - 1 : i \in DOMAIN rows}
           /\ \A i \in DOMAIN rows :
                 LET r == rows[i] IN
                 IF r.open < 0 \/ r.high < 0 \/ r.low < 0 \/ r.close < 0
                        \/ r.volume < 0
                 THEN (i - 1) \in neg /\ (i - 1) \notin dirty
                 ELSE /\ (i - 1) \notin neg
                      /\ (i - 1) \in dirty <=>
                            (r.low > r.high \/ r.open > r.high \/ r.open < r.low
                                \/ r.close > r.high \/ r.close < r.low)

\* C22 witness: a table with a row that has low > high and volume < 0 and a
\* row that has low > high only.
C22_Witness ==
    /\ q_pc = "returned" /\ q_src = "table"
    /\ \E i \in DOMAIN q_df.rows :
          /\ q_df.rows[i].low > q_df.rows[i].high /\ q_df.rows[i].volume < 0
          /\ (i - 1) \in SeqToSet(q_report[1].negative_values)
    /\ q_report[1].dirty_price_rows # <<>>

\* The rows of a table that share exchange, symbol, timeframe and timestamp
\* with another row.
RowsInKeyGroups(rows) ==
    {i \in DOMAIN rows :
        \E j \in DOMAIN rows :
            /\ j # i
            /\ rows[j].exchange = rows[i].exchange
            /\ rows[j].symbol = rows[i].symbol
            /\ rows[j].timeframe = rows[i].timeframe
            /\ rows[j].timestamp = rows[i].timestamp}

\* C23: the duplicates field is the number of rows that share their full key
\* with at least one other row (a group of k rows counts k), and 0 for a table
\* with unique keys.
C23_DuplicatesCountsGroupRows ==
    q_pc = "returned" =>
        q_report[1].duplicates = Cardinality(RowsInKeyGroups(q_df.rows))

\* C23 witness: three rows of one timestamp and timeframe, two of them of the
\* same exchange: duplicates = 2.
C23_Witness ==
    /\ q_pc = "returned" /\ q_src = "table"
    /\ Len(q_df.rows) = 3
    /\ \A i \in 1..3 : q_df.rows[i].timestamp = 0 /\ q_df.rows[i].timeframe = "1m"
    /\ q_df.rows[2].exchange = "okx"
    /\ q_report[1].duplicates = 2

\* The reference of C24: the grid points strictly between two neighbouring
\* timestamps that are more than step apart.
MissingReference(tset, step) ==
    LET span == SetMax(tset) - CHOOSE x \in tset : \A y \in tset : x <= y
    IN {x \in {p + k * step : p \in tset, k \in 1..(span \div step)} :
           \E p, c \in tset :
               /\ p < c /\ ~(\E m \in tset : p < m /\ m < c)
               /\ c - p > step
               /\ p < x /\ x < c /\ (x - p) % step = 0}

\* C24: missing_timestamps is empty when the table is empty, holds more than
\* one timeframe, or its timeframe has no known step; otherwise it lists, in
\* ascending order and once each, the points prev + k * step strictly between
\* the neighbouring timestamps prev and cur that are more than step apart.
\* No listed timestamp is in the table.
C24_MissingTimestampsOnGrid ==
    q_pc = "returned" =>
        LET rows == q_df.rows
            missing == q_report[1].missing_timestamps
            tset == {rows[i].timestamp : i \in DOMAIN rows}
            tfs == {rows[i].timeframe : i \in DOMAIN rows}
            known == Cardinality(tfs) = 1
                        /\ \A tf \in tfs : tf \in DOMAIN TIMEFRAME_TO_MS
        IN /\ (rows = <<>> \/ ~known) => missing = <<>>
           /\ (rows # <<>> /\ known) =>
                 /\ \A i, j \in DOMAIN missing : i < j => missing[i] < missing[j]
                 /\ SeqToSet(missing) =
                       MissingReference(tset,
                           TIMEFRAME_TO_MS[CHOOSE tf \in tfs : TRUE])
           /\ SeqToSet(missing) \cap tset = {}

\* C24 witness: timeframe 1m, timestamps T, T + 60000, T + 180000 with T = 0,
\* given out of order: missing_timestamps is [T + 120000].
C24_Witness ==
    /\ q_pc = "returned" /\ q_src = "table"
    /\ Len(q_df.rows) = 3
    /\ q_df.rows[1].timestamp = 180000 /\ q_df.rows[2].timestamp = 0
    /\ q_df.rows[3].timestamp = 60000
    /\ q_report[1].missing_timestamps = <<120000>>

\* C25 (as stated): for every table that lacks a column of the contract,
\* run_qc_v0 returns a report with structure_ok = false and dtype_ok = false
\* and raises nothing.
C25_IntegrityReportedNotRaised ==
    (q_src = "table" /\ q_pc # "idle"
        /\ ~(ExpectedColumns \subseteq q_df.columns)) =>
        /\ q_pc = "returned"
        /\ ~q_report[1].structure_ok /\ ~q_report[1].dtype_ok

\* C26 (as stated): for every raw batch, the empty one included,
\* normalize_to_contract returns the nine columns in contract order with the
\* contract's dtypes and one row per raw candle, in input order, with the
\* candle's values; run_qc_v0 on it reports structure_ok and dtype_ok.
C26_NormalizedMeetsContract ==
    (q_src = "raw" /\ q_pc # "idle") =>
        /\ q_df.order = EXPECTED_COLUMNS
        /\ q_df.dtypes = ContractDtypes
        /\ Len(q_df.rows) = Len(q_raw)
        /\ \A i \in DOMAIN q_raw :
              <<q_df.rows[i].timestamp, q_df.rows[i].open, q_df.rows[i].high,
                q_df.rows[i].low, q_df.rows[i].close, q_df.rows[i].volume>>
                  = q_raw[i]
        /\ q_pc # "normalized" =>
              /\ q_pc = "returned"
              /\ q_report[1].structure_ok /\ q_report[1].dtype_ok

\* -------------------------------------------------- src/io/utils.py steps
\* tf_to_seconds raises ValueError for a timeframe that TF_SECONDS lacks.
Unsupported(tf) == tf \notin DOMAIN TF_SECONDS

ClosedBarCurrent(ts, seconds) == (ts \div seconds) * seconds
\* Lines 31-32: (ts // seconds) * seconds - seconds, // rounding down.
ClosedBar(ts, seconds) == (ts \div seconds) * seconds - seconds

\* floor_utc_to_closed_bar(now_utc, tf) for an instant of whole seconds, for
\* which int(now_utc.timestamp()) is the instant's epoch seconds; the result
\* is given as the epoch seconds of the returned datetime.
FloorUtcToClosedBar ==
    /\ u_pc = "idle"
    /\ IF Unsupported(u_tf)
       THEN u_pc' = "raised" /\ u_exc' = "ValueError" /\ UNCHANGED u_result
       ELSE /\ u_result' = ClosedBar(u_now, TF_SECONDS[u_tf])
            /\ u_pc' = "returned" /\ UNCHANGED u_exc
    /\ UNCHANGED <<u_now, u_tf, qvars>>
    /\ UNCHANGED <<hvars, svars, fvars, avars>>

UNext == FloorUtcToClosedBar

\* floor_utc_to_closed_bar is checked for every instant and timeframe drawn
\* from the bounded sets.
InitUtils ==
    /\ HInit /\ SInit /\ FInit /\ AInit /\ QInit
    /\ u_now \in NowValues /\ u_tf \in UtilTimeframes
    /\ UIdle

SpecUtils == InitUtils /\ [][UNext]_vars

\* ---------------------------------------------------- claims: src/io/utils.py
\* C27: for a supported timeframe of step s the result r is a multiple of s
\* with r + s <= now < r + 2 * s, that is r = floor(now / s) * s - s, the start
\* of the latest bar that is closed at now; an unsupported timeframe raises
\* and returns nothing.
C27_LatestClosedBar ==
    u_pc # "idle" =>
        IF u_tf \in {"5m", "1h", "1d"}
        THEN LET s == CASE u_tf = "5m" -> 300 [] u_tf = "1h" -> 3600
                        [] u_tf = "1d" -> 86400
             IN /\ u_pc = "returned"
                /\ u_result % s = 0
                /\ u_result + s <= u_now /\ u_now < u_result + 2 * s
        ELSE u_pc = "raised" /\ u_exc = "ValueError" /\ u_result = None

\* C27 witness: one second before the bar [0, 300) closes, the latest closed
\* bar is the one that starts at -300.
C27_Witness ==
    /\ u_pc = "returned" /\ u_tf = "5m" /\ u_now = 299 /\ u_result = -300

\* ------------------------------------- claims: history downloader, continued
\* C28: between two consecutive requests of a run the cursor strictly
\* increases (the next since is the batch's largest timestamp + 1, above the
\* previous since), and a run with end_ms or max_batches set, whose requests
\* all return, reaches a terminal state.
C28_CursorAdvancesRunTerminates ==
    /\ [][ /\ (pc = "saved" /\ pc' = "loop") =>
                (current_since' = SeqMax(df) + 1 /\ current_since' > current_since)
           /\ (nreq' > nreq /\ nreq >= 1) => last_since' > last_since ]_vars
    /\ (pc = "loop" /\ (end_ms # None \/ max_batches # None)) ~> (pc \in Terminal)

\* C28 witness: a run with end_ms set and no max_batches made two requests
\* with increasing since and returned.
C28_Witness ==
    /\ pc = "done" /\ end_ms = 3 /\ max_batches = None
    /\ nreq = 2 /\ first_since < last_since

\* C29 (as stated): load_and_qc writes every batch to a partition file that no
\* earlier batch of the stream was written to.
C29_PartitionNeverOverwritten ==
    [][(pc = "fetched" /\ pc' = "writing") => saved_path' \notin DOMAIN files]_vars

\* ------------------------------------------- claims: fetch_ohlcv, continued
\* Timestamps in strictly ascending order.
StrictlyAscending(s) == \A i, j \in DOMAIN s : i < j => s[i] < s[j]

\* C30 (as stated): fetch_ohlcv is never left by the IndexError of a batch
\* that the overlap filter emptied, and when the rows appended by an iteration
\* are ascending the accumulated timestamps stay strictly increasing.
C30_OverlapNeverRaises ==
    /\ [](f_exc # "IndexError")
    /\ [][(f_pc = "loop" /\ StrictlyAscending(all_data)
              /\ Len(all_data') > Len(all_data)
              /\ StrictlyAscending(SubSeq(all_data', Len(all_data) + 1,
                                          Len(all_data'))))
            => StrictlyAscending(all_data')]_vars
====
